---- MODULE Spec2Model ----
(***************************************************************************)
(* Model of the arithmetic-expression pipeline: tokenize (tokenizer.js)    *)
(* and the recursive descent parser parse (parser.js).                     *)
(*                                                                         *)
(* A JavaScript string is a sequence of one-character strings.  A message  *)
(* built from a template literal is the sequence of its pieces, numbers    *)
(* rendered with ToString.  A nullable value is Null or Some(v).           *)
(***************************************************************************)
EXTENDS Integers, Sequences, FiniteSets, TLC

VARIABLES input, lexed, tokens, currentIndex, steps, nodeId, depth,
          result, treeObject, layout, hook, intervals, observed

vars == <<input, lexed, tokens, currentIndex, steps, nodeId, depth,
          result, treeObject, layout, hook, intervals, observed>>

\* ------------------------------------------------------------------ bounds
\* longest input over the whole alphabet
MaxLen == 3
\* longest input over the expression alphabet
MaxExprLen == 5
\* most nodes of a tree laid out on its own
MaxNodes == 6
\* binary places of a coordinate
FractionBits == 12
\* most intervals set in one run
MaxIntervals == 2

\* --------------------------------------------------------------- alphabet
\* One representative per character class of the tokenizer's tests.  The
\* letter is E, which is also the name of a grammar symbol.
Whitespace == {" "}
Digits == {"1"}
Letters == {"E"}
Chars == Whitespace \cup Digits \cup Letters \cup
         {"+", "-", "*", "/", "(", ")", ".", "$"}
ExprChars == {"1", "+", "*", "(", ")"}

Null == <<>>
Some(v) == <<v>>

RECURSIVE StringsUpTo(_, _)
StringsUpTo(alphabet, n) ==
  IF n = 0 THEN {<<>>}
  ELSE LET S == StringsUpTo(alphabet, n - 1)
       IN  S \cup {Append(s, ch) : s \in {t \in S : Len(t) = n - 1}, ch \in alphabet}

Inputs == StringsUpTo(Chars, MaxLen) \cup StringsUpTo(ExprChars, MaxExprLen)

\* -------------------------------------------------------------- tokenizer
NUMBER == "NUMBER"
ID == "ID"
PLUS == "PLUS"
MINUS == "MINUS"
STAR == "STAR"
SLASH == "SLASH"
LPAREN == "LPAREN"
RPAREN == "RPAREN"
EOF == "EOF"

TokenType == {NUMBER, ID, PLUS, MINUS, STAR, SLASH, LPAREN, RPAREN, EOF}

SINGLE_CHAR_TOKENS ==
  [ch \in {"+", "-", "*", "/", "(", ")"} |->
     CASE ch = "+" -> PLUS
       [] ch = "-" -> MINUS
       [] ch = "*" -> STAR
       [] ch = "/" -> SLASH
       [] ch = "(" -> LPAREN
       [] ch = ")" -> RPAREN]

\* mutant of createToken: the two offsets swapped
createTokenSwapped(type, value, pos, end) ==
  [type |-> type, value |-> value, pos |-> end, end |-> pos]

createToken(type, value, pos, end) ==
  [type |-> type, value |-> value, pos |-> pos, end |-> end]

\* input.slice(start, end) over 0-based offsets
slice(str, start, end) == SubSeq(str, start + 1, end)

\* input[pos] over 0-based offsets
charAt(str, pos) == str[pos + 1]

\* mutant of numberRun: the hasDecimal test dropped, every '.' is consumed
RECURSIVE numberRunAnyDots(_, _, _)
numberRunAnyDots(str, pos, hasDecimal) ==
  IF pos < Len(str) /\ (charAt(str, pos) \in Digits \/ charAt(str, pos) = ".")
  THEN numberRunAnyDots(str, pos + 1, hasDecimal)
  ELSE pos

\* the inner while loop of the number branch: the offset where it stops
RECURSIVE numberRun(_, _, _)
numberRun(str, pos, hasDecimal) ==
  IF pos < Len(str) /\ (charAt(str, pos) \in Digits \/ charAt(str, pos) = ".")
  THEN IF charAt(str, pos) = "."
       THEN IF hasDecimal THEN pos ELSE numberRun(str, pos + 1, TRUE)
       ELSE numberRun(str, pos + 1, hasDecimal)
  ELSE pos

\* the inner while loop of the identifier branch: the offset where it stops
RECURSIVE idRun(_, _)
idRun(str, pos) ==
  IF pos < Len(str) /\ charAt(str, pos) \in (Letters \cup Digits \cup {"_"})
  THEN idRun(str, pos + 1)
  ELSE pos

\* the outer while loop of tokenize, from offset pos with toks pushed so far
RECURSIVE scan(_, _, _)
scan(str, pos, toks) ==
  IF pos < Len(str)
  THEN LET char == charAt(str, pos)
       IN  IF char \in Whitespace
           THEN scan(str, pos + 1, toks)
           ELSE IF char \in DOMAIN SINGLE_CHAR_TOKENS
           THEN scan(str, pos + 1,
                     Append(toks, createToken(SINGLE_CHAR_TOKENS[char], <<char>>, pos, pos + 1)))
           ELSE IF char \in Digits
           THEN LET stop == numberRun(str, pos, FALSE)
                IN  scan(str, stop,
                         Append(toks, createToken(NUMBER, slice(str, pos, stop), pos, stop)))
           ELSE IF char \in (Letters \cup {"_"})
           THEN LET stop == idRun(str, pos)
                IN  scan(str, stop,
                         Append(toks, createToken(ID, slice(str, pos, stop), pos, stop)))
           ELSE [tokens |-> <<>>,
                 error |-> Some(<<"Unexpected character '", char, "' at position ", ToString(pos)>>),
                 errorPos |-> Some(pos)]
  ELSE [tokens |-> Append(toks, createToken(EOF, <<"EOF">>, pos, pos)),
        error |-> Null,
        errorPos |-> Null]

Front(s) == SubSeq(s, 1, Len(s) - 1)

\* mutant of tokenize: the EOF token is not appended
tokenizeNoEOF(str) ==
  LET r == scan(str, 0, <<>>)
  IN  IF r.error = Null THEN [r EXCEPT !.tokens = Front(@)] ELSE r

\* mutant of tokenize: the error position counted from 1
tokenizeOneBased(str) ==
  LET r == scan(str, 0, <<>>)
  IN  IF r.error = Null THEN r ELSE [r EXCEPT !.errorPos = Some(@[1] + 1)]

tokenize(str) == scan(str, 0, <<>>)

\* ----------------------------------------------------------------- parser
\* The module-level variables of the parser, threaded through one call as a
\* record c; c.err is Null until a ParseError is thrown and then carries it,
\* and the descent stops there: the catch in parse is the only handler.
\* The arrows and the epsilon of the source's labels are written in ASCII.
EPSILON == <<"eps">>

NoNode == [label |-> <<>>, children |-> <<>>, id |-> -1]

peek(toks, c) ==
  IF c.currentIndex < Len(toks)
  THEN toks[c.currentIndex + 1]
  ELSE [type |-> EOF, value |-> <<"EOF">>, pos |-> -1]

consume(c) == [c EXCEPT !.currentIndex = @ + 1]

\* mutant of createNode: the counter is incremented before it is read
createNodePreIncrement(c, label, children) ==
  [c |-> [c EXCEPT !.nodeId = @ + 1],
   node |-> [label |-> label, children |-> children, id |-> c.nodeId + 1]]

createNode(c, label, children) ==
  [c |-> [c EXCEPT !.nodeId = @ + 1],
   node |-> [label |-> label, children |-> children, id |-> c.nodeId]]

logStep(toks, c, rule, action) ==
  LET token == peek(toks, c)
  IN  [c EXCEPT !.steps = Append(@, [rule |-> rule,
                                     action |-> action,
                                     token |-> token.value,
                                     tokenType |-> token.type,
                                     depth |-> c.depth,
                                     timestamp |-> Len(c.steps)])]

\* mutant of parseError: the token index reported instead of its position
parseErrorIndex(toks, c, expected) ==
  LET token == peek(toks, c)
      posInfo == IF token.pos >= 0 THEN <<" at position ", ToString(token.pos)>> ELSE <<>>
      got == IF token.type = EOF THEN <<"end of input">>
             ELSE <<"'">> \o token.value \o <<"'">>
  IN  [c EXCEPT !.err = Some([message |-> <<"Syntax Error">> \o posInfo
                                          \o <<": Expected ", expected, ", but found ">> \o got,
                              pos |-> c.currentIndex])]

\* mutant of parseError: the found token always quoted, EOF too
parseErrorQuoted(toks, c, expected) ==
  LET token == peek(toks, c)
      posInfo == IF token.pos >= 0 THEN <<" at position ", ToString(token.pos)>> ELSE <<>>
      got == <<"'">> \o token.value \o <<"'">>
  IN  [c EXCEPT !.err = Some([message |-> <<"Syntax Error">> \o posInfo
                                          \o <<": Expected ", expected, ", but found ">> \o got,
                              pos |-> token.pos])]

parseError(toks, c, expected) ==
  LET token == peek(toks, c)
      posInfo == IF token.pos >= 0 THEN <<" at position ", ToString(token.pos)>> ELSE <<>>
      got == IF token.type = EOF THEN <<"end of input">>
             ELSE <<"'">> \o token.value \o <<"'">>
  IN  [c EXCEPT !.err = Some([message |-> <<"Syntax Error">> \o posInfo
                                          \o <<": Expected ", expected, ", but found ">> \o got,
                              pos |-> token.pos])]

enter(c) == [c EXCEPT !.depth = @ + 1]

\* mutant of leave: the decrement forgotten
leaveNoDecrement(c) == c

leave(c) == [c EXCEPT !.depth = @ - 1]

\* The JavaScript call stack, explicit.  c.stack holds one frame per active
\* call of a grammar function, the innermost last: fn names the function,
\* pc counts the calls it has made, and nodes holds the nodes it has in its
\* local constants.  c.ret is the node the last return handed back.
top(c) == c.stack[Len(c.stack)]

\* the running function calls callee, keeping nodes in its locals
invoke(c, callee, nodes) ==
  [c EXCEPT !.stack = Append([@ EXCEPT ![Len(@)].pc = @ + 1, ![Len(@)].nodes = nodes],
                             [fn |-> callee, pc |-> 0, nodes |-> <<>>])]

\* the running function returns node
return(c, node) == [c EXCEPT !.stack = Front(@), !.ret = node]

\* mutant of parseE: the node's children in the wrong order
parseESwapped(toks, c) ==
  LET f == top(c)
  IN  CASE f.pc = 0 ->
             invoke(logStep(toks, enter(c), "E -> T E'", <<"Enter E">>), "parseT", <<>>)
        [] f.pc = 1 ->
             invoke(c, "parseEPrime", <<c.ret>>)
        [] f.pc = 2 ->
             LET n == createNode(c, <<"E">>, <<c.ret, f.nodes[1]>>)
                 c2 == logStep(toks, n.c, "E -> T E'", <<"Exit E">>)
             IN  return(leave(c2), n.node)

\* E -> T E'
parseE(toks, c) ==
  LET f == top(c)
  IN  CASE f.pc = 0 ->
             invoke(logStep(toks, enter(c), "E -> T E'", <<"Enter E">>), "parseT", <<>>)
        [] f.pc = 1 ->
             invoke(c, "parseEPrime", <<c.ret>>)
        [] f.pc = 2 ->
             LET n == createNode(c, <<"E">>, <<f.nodes[1], c.ret>>)
                 c2 == logStep(toks, n.c, "E -> T E'", <<"Exit E">>)
             IN  return(leave(c2), n.node)

\* mutant of matchOperator: the operator is consumed before the step is logged
matchOperatorConsumeFirst(toks, c1, rule, op, callee) ==
  LET c2 == logStep(toks, consume(c1), rule, <<"Match '", op, "'">>)
      o == createNode(c2, <<op>>, <<>>)
  IN  invoke(o.c, callee, <<o.node>>)

\* the start of an operator branch of parseEPrime or parseTPrime: the step,
\* the consume, the operator's leaf, and the call of the operand's function
matchOperator(toks, c1, rule, op, callee) ==
  LET c2 == consume(logStep(toks, c1, rule, <<"Match '", op, "'">>))
      o == createNode(c2, <<op>>, <<>>)
  IN  invoke(o.c, callee, <<o.node>>)

\* mutant of epsilon: the node is created without its epsilon leaf
epsilonNoLeaf(toks, c1, rule, label) ==
  LET c2 == logStep(toks, c1, rule, <<"Epsilon (no match needed)">>)
      n == createNode(c2, label, <<>>)
  IN  return(leave(n.c), n.node)

\* mutant of epsilon: the lookahead is consumed
epsilonConsumes(toks, c1, rule, label) ==
  LET c2 == consume(logStep(toks, c1, rule, <<"Epsilon (no match needed)">>))
      e == createNode(c2, EPSILON, <<>>)
      n == createNode(e.c, label, <<e.node>>)
  IN  return(leave(n.c), n.node)

\* the epsilon branch of parseEPrime or parseTPrime
epsilon(toks, c1, rule, label) ==
  LET c2 == logStep(toks, c1, rule, <<"Epsilon (no match needed)">>)
      e == createNode(c2, EPSILON, <<>>)
      n == createNode(e.c, label, <<e.node>>)
  IN  return(leave(n.c), n.node)

\* E' -> + T E' | - T E' | eps
parseEPrime(toks, c) ==
  LET f == top(c)
  IN  CASE f.pc = 0 ->
             LET c1 == enter(c)
                 token == peek(toks, c1)
             IN  IF token.type = PLUS
                 THEN matchOperator(toks, c1, "E' -> + T E'", "+", "parseT")
                 ELSE IF token.type = MINUS
                 THEN matchOperator(toks, c1, "E' -> - T E'", "-", "parseT")
                 ELSE epsilon(toks, c1, "E' -> eps", <<"E", "'">>)
        [] f.pc = 1 ->
             invoke(c, "parseEPrime", Append(f.nodes, c.ret))
        [] f.pc = 2 ->
             LET n == createNode(c, <<"E", "'">>, Append(f.nodes, c.ret))
             IN  return(leave(n.c), n.node)

\* mutant of parseT: the Enter step is logged before depth is incremented
parseTLogFirst(toks, c) ==
  LET f == top(c)
  IN  CASE f.pc = 0 ->
             invoke(enter(logStep(toks, c, "T -> F T'", <<"Enter T">>)), "parseF", <<>>)
        [] f.pc = 1 ->
             invoke(c, "parseTPrime", <<c.ret>>)
        [] f.pc = 2 ->
             LET n == createNode(c, <<"T">>, <<f.nodes[1], c.ret>>)
                 c2 == logStep(toks, n.c, "T -> F T'", <<"Exit T">>)
             IN  return(leave(c2), n.node)

\* T -> F T'
parseT(toks, c) ==
  LET f == top(c)
  IN  CASE f.pc = 0 ->
             invoke(logStep(toks, enter(c), "T -> F T'", <<"Enter T">>), "parseF", <<>>)
        [] f.pc = 1 ->
             invoke(c, "parseTPrime", <<c.ret>>)
        [] f.pc = 2 ->
             LET n == createNode(c, <<"T">>, <<f.nodes[1], c.ret>>)
                 c2 == logStep(toks, n.c, "T -> F T'", <<"Exit T">>)
             IN  return(leave(c2), n.node)

\* T' -> * F T' | / F T' | eps
parseTPrime(toks, c) ==
  LET f == top(c)
  IN  CASE f.pc = 0 ->
             LET c1 == enter(c)
                 token == peek(toks, c1)
             IN  IF token.type = STAR
                 THEN matchOperator(toks, c1, "T' -> * F T'", "*", "parseF")
                 ELSE IF token.type = SLASH
                 THEN matchOperator(toks, c1, "T' -> / F T'", "/", "parseF")
                 ELSE epsilon(toks, c1, "T' -> eps", <<"T", "'">>)
        [] f.pc = 1 ->
             invoke(c, "parseTPrime", Append(f.nodes, c.ret))
        [] f.pc = 2 ->
             LET n == createNode(c, <<"T", "'">>, Append(f.nodes, c.ret))
             IN  return(leave(n.c), n.node)

\* mutant of leafF: the matched token is not consumed
leafFNoConsume(toks, c1, rule, what) ==
  LET token == peek(toks, c1)
      c2 == logStep(toks, c1, rule, <<what>> \o token.value \o <<"'">>)
      l == createNode(c2, token.value, <<>>)
      n == createNode(l.c, <<"F">>, <<l.node>>)
  IN  return(leave(n.c), n.node)

\* the number and identifier branches of parseF
leafF(toks, c1, rule, what) ==
  LET token == peek(toks, c1)
      c2 == consume(logStep(toks, c1, rule, <<what>> \o token.value \o <<"'">>))
      l == createNode(c2, token.value, <<>>)
      n == createNode(l.c, <<"F">>, <<l.node>>)
  IN  return(leave(n.c), n.node)

\* F -> ( E ) | id | number
parseF(toks, c) ==
  LET f == top(c)
  IN  CASE f.pc = 0 ->
             LET c1 == enter(c)
                 token == peek(toks, c1)
             IN  IF token.type = LPAREN
                 THEN LET c2 == consume(logStep(toks, c1, "F -> ( E )", <<"Match '", "(", "'">>))
                          lp == createNode(c2, <<"(">>, <<>>)
                      IN  invoke(lp.c, "parseE", <<lp.node>>)
                 ELSE IF token.type = NUMBER
                 THEN leafF(toks, c1, "F -> number", "Match number '")
                 ELSE IF token.type = ID
                 THEN leafF(toks, c1, "F -> id", "Match identifier '")
                 ELSE parseError(toks, c1, "number, identifier, or \"(\"")
        [] f.pc = 1 ->
             IF peek(toks, c).type # RPAREN
             THEN parseError(toks, c, "')'")
             ELSE LET c3 == consume(logStep(toks, c, "F -> ( E )", <<"Match '", ")", "'">>))
                      rp == createNode(c3, <<")">>, <<>>)
                      n == createNode(rp.c, <<"F">>, <<f.nodes[1], c.ret, rp.node>>)
                  IN  return(leave(n.c), n.node)

\* the running function runs up to its next call, return or throw
step(toks, c) ==
  LET fn == top(c).fn
  IN  CASE fn = "parseE" -> parseE(toks, c)
        [] fn = "parseEPrime" -> parseEPrime(toks, c)
        [] fn = "parseT" -> parseT(toks, c)
        [] fn = "parseTPrime" -> parseTPrime(toks, c)
        [] fn = "parseF" -> parseF(toks, c)

\* the descent, until the outermost call returns or a ParseError is thrown
RECURSIVE run(_, _)
run(toks, c) ==
  IF c.stack = <<>> \/ c.err # Null THEN c ELSE run(toks, step(toks, c))

\* mutant of resetState: nodeId and depth are not reset
resetStateKeepsCounters(m, tokenArray) ==
  [tokens |-> tokenArray, currentIndex |-> 0, steps |-> <<>>, nodeId |-> m.nodeId,
   depth |-> m.depth, err |-> Null,
   stack |-> <<[fn |-> "parseE", pc |-> 0, nodes |-> <<>>]>>, ret |-> NoNode]

\* the assignments that open parse: the state every call starts from
resetState(m, tokenArray) ==
  [tokens |-> tokenArray, currentIndex |-> 0, steps |-> <<>>, nodeId |-> 0,
   depth |-> 0, err |-> Null,
   stack |-> <<[fn |-> "parseE", pc |-> 0, nodes |-> <<>>]>>, ret |-> NoNode]

SuccessAction == <<"Expression parsed successfully!">>

\* the completion check of parse on the state e the descent ended in
checkEOF(toks, e) ==
  IF e.err # Null THEN e
  ELSE IF peek(toks, e).type # EOF THEN parseError(toks, e, "end of expression")
  ELSE e

\* what parse returns and leaves behind once c2 holds the final step
returned(c2, tree) ==
  [state |-> c2,
   ret |-> [tree |-> tree,
            steps |-> c2.steps,
            error |-> IF c2.err = Null THEN Null ELSE Some(c2.err[1].message),
            errorPos |-> IF c2.err = Null THEN Null ELSE Some(c2.err[1].pos)]]

\* mutant of finish: on failure only the failure step is returned
finishDropsTrace(toks, c1) ==
  IF c1.err = Null
  THEN returned(logStep(toks, c1, "Parse Complete", SuccessAction), Some(c1.ret))
  ELSE returned(logStep(toks, [c1 EXCEPT !.steps = <<>>], "Parse Error", c1.err[1].message),
                Null)

\* the end of the try block of parse, and its catch block
finish(toks, c1) ==
  IF c1.err = Null
  THEN returned(logStep(toks, c1, "Parse Complete", SuccessAction), Some(c1.ret))
  ELSE returned(logStep(toks, c1, "Parse Error", c1.err[1].message), Null)

\* mutant of parse: no check that the lookahead is EOF after parseE
parseNoEOFCheck(tokenArray, m) ==
  finish(tokenArray, run(tokenArray, resetState(m, tokenArray)))

\* parse(tokenArray) called with the module-level variables as m: the
\* variables as the call leaves them (state) and the value returned (ret)
parse(tokenArray, m) ==
  finish(tokenArray, checkEOF(tokenArray, run(tokenArray, resetState(m, tokenArray))))

\* ------------------------------------------------------------ tree layout
\* A coordinate is a JavaScript number that halving can make fractional: it
\* is held as a fixed-point integer with FractionBits binary places, px(n)
\* being n pixels.  Depths and ids stay plain integers.  A tree node is an
\* object: a function from its property names to their values.
NODE_WIDTH == 60
NODE_HEIGHT == 50
LEVEL_HEIGHT == 80
MIN_SIBLING_SEP == 20

px(n) == n * 2^FractionBits

\* v / 2
half(v) == v \div 2

\* node[f] = v, adding the property when the node has none of that name
setField(node, f, v) == (f :> v) @@ node

\* the negation of the test !node.children || node.children.length === 0
hasChildren(node) == "children" \in DOMAIN node /\ node.children # <<>>

\* mutant of assignDepth: the children are given their parent's depth
RECURSIVE assignDepthFlat(_, _)
assignDepthFlat(node, d) ==
  IF "children" \in DOMAIN node
  THEN [setField(node, "_depth", d) EXCEPT
          !.children = [i \in 1..Len(@) |-> assignDepthFlat(@[i], d)]]
  ELSE setField(node, "_depth", d)

\* the tree under node with _depth written on every node
RECURSIVE assignDepth(_, _)
assignDepth(node, d) ==
  IF "children" \in DOMAIN node
  THEN [setField(node, "_depth", d) EXCEPT
          !.children = [i \in 1..Len(@) |-> assignDepth(@[i], d + 1)]]
  ELSE setField(node, "_depth", d)

\* mutant of centre: the mean of all the children
RECURSIVE sumX(_)
sumX(nodes) == IF nodes = <<>> THEN 0 ELSE Head(nodes)._x + sumX(Tail(nodes))

centreMean(node, r) ==
  [node |-> setField([node EXCEPT !.children = r.nodes], "_x",
                     sumX(r.nodes) \div Len(r.nodes)),
   nextX |-> r.nextX]

\* the end of assignX on an inner node whose children were visited, r.nodes
\* being the children as the visits left them
centre(node, r) ==
  [node |-> setField([node EXCEPT !.children = r.nodes], "_x",
                     half(r.nodes[1]._x + r.nodes[Len(r.nodes)]._x)),
   nextX |-> r.nextX]

\* mutant of leafX: the spacing is the separation alone, the width forgotten
leafXSepOnly(node, nextX) ==
  [node |-> setField(node, "_x", nextX), nextX |-> nextX + px(MIN_SIBLING_SEP)]

\* mutant of leafX: the spacing is the node width alone
leafXNoSep(node, nextX) ==
  [node |-> setField(node, "_x", nextX), nextX |-> nextX + px(NODE_WIDTH)]

\* the leaf branch of assignX
leafX(node, nextX) ==
  [node |-> setField(node, "_x", nextX),
   nextX |-> nextX + px(NODE_WIDTH + MIN_SIBLING_SEP)]

\* assignX(node) with the closure variable nextX threaded through: the tree
\* under node with _x written on every node, and nextX as the call leaves it
RECURSIVE assignX(_, _), assignXChildren(_, _, _)
assignX(node, nextX) ==
  IF ~hasChildren(node)
  THEN leafX(node, nextX)
  ELSE centre(node, assignXChildren(node.children, <<>>, nextX))

\* the for loop of assignX, visited holding the children already visited
assignXChildren(children, visited, nextX) ==
  IF children = <<>>
  THEN [nodes |-> visited, nextX |-> nextX]
  ELSE \* one iteration
       LET r == assignX(Head(children), nextX)
       IN  assignXChildren(Tail(children), Append(visited, r.node), r.nextX)

\* the centre of the box of a node: the x and y of collect
xOf(node) == node._x + half(px(NODE_WIDTH))

yOf(node) == node._depth * px(LEVEL_HEIGHT) + half(px(NODE_HEIGHT)) + px(20)

\* the object collect pushes for node
layoutNode(node) ==
  [id |-> node.id,
   label |-> node.label,
   x |-> xOf(node),
   y |-> yOf(node),
   depth |-> node._depth,
   isLeaf |-> ~hasChildren(node),
   isEpsilon |-> node.label = EPSILON,
   isOperator |-> node.label \in {<<"+">>, <<"-">>, <<"*">>, <<"/">>, <<"(">>, <<")">>},
   isNonTerminal |-> node.label \in {<<"E">>, <<"E", "'">>, <<"T">>, <<"T", "'">>, <<"F">>}]

\* the edge collect pushes from the node laid out as n to child
edge(n, child) ==
  [fromId |-> n.id,
   toId |-> child.id,
   from |-> [x |-> n.x, y |-> n.y + px(18)],
   to |-> [x |-> xOf(child), y |-> yOf(child) - px(18)]]

\* the push and the two maxima at the head of collect
pushed(n, acc) ==
  [nodes |-> Append(acc.nodes, n),
   edges |-> acc.edges,
   maxX |-> IF n.x > acc.maxX THEN n.x ELSE acc.maxX,
   maxDepth |-> IF n.depth > acc.maxDepth THEN n.depth ELSE acc.maxDepth]

\* collect(node) with the closure variables nodes, edges, maxX and maxDepth
\* threaded through as acc
RECURSIVE collect(_, _), collectChildren(_, _, _)
collect(node, acc) ==
  IF "children" \in DOMAIN node
  THEN collectChildren(node.children, layoutNode(node), pushed(layoutNode(node), acc))
  ELSE pushed(layoutNode(node), acc)

\* the for loop of collect over the children of the node laid out as n
collectChildren(children, n, acc) ==
  IF children = <<>>
  THEN acc
  ELSE collectChildren(Tail(children), n,
                       collect(Head(children),
                               [acc EXCEPT !.edges = Append(@, edge(n, Head(children)))]))

\* what computeTreeLayout returns for the laid-out tree, and the tree
layoutOf(node, acc) ==
  [tree |-> Some(node),
   ret |-> [nodes |-> acc.nodes,
            edges |-> acc.edges,
            width |-> acc.maxX + px(NODE_WIDTH) + px(40),
            height |-> (acc.maxDepth + 1) * px(LEVEL_HEIGHT) + px(60)]]

\* step 3 of computeTreeLayout on the tree with its depths and x assigned
positioned(node) ==
  layoutOf(node, collect(node, [nodes |-> <<>>, edges |-> <<>>, maxX |-> 0, maxDepth |-> 0]))

\* computeTreeLayout(root): the value returned (ret) and the tree object as
\* the call leaves it (tree)
computeTreeLayout(root) ==
  IF root = Null
  THEN [tree |-> Null, ret |-> [nodes |-> <<>>, edges |-> <<>>, width |-> 0, height |-> 0]]
  ELSE positioned(assignX(assignDepth(root[1], 0), 0).node)

\* the class ParseTreeView draws the laid-out node n with
nodeClass(n) ==
  IF n.isEpsilon THEN "epsilon"
  ELSE IF n.isOperator THEN "operator"
  ELSE IF n.isLeaf /\ ~n.isNonTerminal THEN "terminal"
  ELSE "non-terminal"

\* ------------------------------------------------------ useParser hook
\* The state of the hook is the record hook of its useState values but for
\* input, which is the variable input.  A handler runs to its end before
\* the next event, and React applies its set calls together: a handler is
\* a function from the state it was rendered with to the state it leaves.
\* intervals is the browser's table of the intervals set, the interval
\* with id i at intervals[i]: the stepIndex and steps its callback closes
\* over, and whether it is still scheduled.
useState ==
  [tokens |-> <<>>, parseTree |-> Null, steps |-> <<>>, error |-> Null,
   errorPos |-> Null, isParsed |-> FALSE, activeStep |-> -1, isAnimating |-> FALSE]

RECURSIVE trim(_)
trim(str) ==
  IF str # <<>> /\ Head(str) \in Whitespace THEN trim(Tail(str))
  ELSE IF str # <<>> /\ str[Len(str)] \in Whitespace THEN trim(SubSeq(str, 1, Len(str) - 1))
  ELSE str

\* the set calls that open handleParse
clearResults(h) ==
  [h EXCEPT !.error = Null, !.errorPos = Null, !.parseTree = Null, !.steps = <<>>,
            !.tokens = <<>>, !.activeStep = -1, !.isAnimating = FALSE]

EmptyInputMessage == <<"Please enter an expression to parse.">>

\* handleParse on input str, the hook's state h and the parser's variables
\* m: the state of the hook (hook) and of the parser (state) it leaves
handleParse(str, h, m) ==
  IF trim(str) = <<>>
  THEN [hook |-> [clearResults(h) EXCEPT !.error = Some(EmptyInputMessage)], state |-> m]
  ELSE LET lex == tokenize(str)
       IN  IF lex.error # Null
           THEN [hook |-> [clearResults(h) EXCEPT !.error = lex.error,
                                                  !.errorPos = lex.errorPos,
                                                  !.isParsed = FALSE],
                 state |-> m]
           ELSE LET r == parse(lex.tokens, m)
                IN  IF r.ret.error # Null
                    THEN [hook |-> [clearResults(h) EXCEPT !.tokens = lex.tokens,
                                                           !.steps = r.ret.steps,
                                                           !.error = r.ret.error,
                                                           !.errorPos = r.ret.errorPos,
                                                           !.isParsed = TRUE],
                          state |-> r.state]
                    ELSE [hook |-> [clearResults(h) EXCEPT !.tokens = lex.tokens,
                                                           !.steps = r.ret.steps,
                                                           !.parseTree = r.ret.tree,
                                                           !.isParsed = TRUE],
                          state |-> r.state]

\* handleReset: every useState value but input, which it sets to ''
handleReset(h) ==
  [h EXCEPT !.tokens = <<>>, !.parseTree = Null, !.steps = <<>>, !.error = Null,
            !.errorPos = Null, !.isParsed = FALSE, !.activeStep = -1,
            !.isAnimating = FALSE]

\* animateSteps: the state of the hook and the table of intervals after it.
\* The value it returns, a function that clears the interval, goes to the
\* button's onClick, which drops it.
animateSteps(h, table) ==
  IF Len(h.steps) = 0
  THEN [hook |-> h, intervals |-> table]
  ELSE [hook |-> [h EXCEPT !.isAnimating = TRUE, !.activeStep = 0],
        intervals |-> Append(table, [stepIndex |-> 0, steps |-> h.steps,
                                     scheduled |-> TRUE])]

\* the callback of interval id, which animateSteps passes to setInterval
tick(h, table, id) ==
  LET stepIndex == table[id].stepIndex + 1
      closed == table[id].steps
  IN  IF stepIndex >= Len(closed)
      THEN [hook |-> [h EXCEPT !.isAnimating = FALSE, !.activeStep = Len(closed) - 1],
            intervals |-> [table EXCEPT ![id].stepIndex = stepIndex,
                                        ![id].scheduled = FALSE]]
      ELSE [hook |-> [h EXCEPT !.activeStep = stepIndex],
            intervals |-> [table EXCEPT ![id].stepIndex = stepIndex]]

\* what the claims on the hook speak of and the hook does not hold: the
\* intervals scheduled when handleReset last ran (pending), and whether the
\* callback of one of them has changed activeStep or isAnimating since
NothingObserved == [pending |-> {}, changed |-> FALSE]

\* ---------------------------------------------------------- state machine
\* a fixed token stream whose parse fails inside the descent
Probe == tokenize(<<"(", "1", "+">>).tokens

Init ==
  /\ input \in Inputs
  /\ lexed = Null
  /\ tokens = <<>>
  /\ currentIndex = 0
  /\ steps = <<>>
  /\ nodeId = 0
  /\ depth = 0
  /\ result = Null
  /\ treeObject = Null
  /\ layout = Null
  /\ hook = useState
  /\ intervals = <<>>
  /\ observed = NothingObserved

\* a call tokenize(input), as handleParse makes it
Tokenize ==
  /\ lexed = Null
  /\ lexed' = Some(tokenize(input))
  /\ UNCHANGED <<input, tokens, currentIndex, steps, nodeId, depth, result,
                 treeObject, layout, hook, intervals, observed>>

\* one call parse(tokenArray); treeObject is the tree object it returns, which no
\* layout has been computed for
Call(tokenArray) ==
  \E r \in {parse(tokenArray, [tokens |-> tokens, currentIndex |-> currentIndex,
                               steps |-> steps, nodeId |-> nodeId, depth |-> depth])} :
      /\ tokens' = r.state.tokens
      /\ currentIndex' = r.state.currentIndex
      /\ steps' = r.state.steps
      /\ nodeId' = r.state.nodeId
      /\ depth' = r.state.depth
      /\ result' = Some([arg |-> tokenArray, ret |-> r.ret])
      /\ treeObject' = r.ret.tree
      /\ layout' = Null
      /\ UNCHANGED <<input, lexed, hook, intervals, observed>>

\* the call parse(tokenResult) of handleParse
Parse ==
  /\ lexed # Null
  /\ lexed[1].error = Null
  /\ Call(lexed[1].tokens)

\* a call on a token list that does not end in EOF
ParseTruncated ==
  /\ lexed # Null
  /\ lexed[1].error = Null
  /\ Call(Front(lexed[1].tokens))

\* a call on another token stream between two calls
ParseProbe ==
  /\ lexed # Null
  /\ lexed[1].error = Null
  /\ Call(Probe)

\* one call computeTreeLayout(treeObject): layout holds the tree as it was passed
\* (arg) and the value returned (ret), treeObject the tree object afterwards
Layout ==
  \E r \in {computeTreeLayout(treeObject)} :
      /\ layout' = Some([arg |-> treeObject, ret |-> r.ret])
      /\ treeObject' = r.tree
      /\ UNCHANGED <<input, lexed, tokens, currentIndex, steps, nodeId, depth, result,
                     hook, intervals, observed>>

\* the useMemo of ParseTreeView: the layout of a new tree, none for null
Render ==
  /\ treeObject # Null
  /\ layout = Null
  /\ Layout

Next == Tokenize \/ Parse \/ ParseTruncated \/ ParseProbe \/ Render

Spec == Init /\ [][Next]_vars

\* ------------------------------------------- the layout of arbitrary trees
\* the trees of n nodes, ids counted from first in pre-order, and the lists
\* of trees of n nodes in all
RECURSIVE TreesOf(_, _), ForestsOf(_, _)
TreesOf(n, first) ==
  {[label |-> <<"n">>, children |-> f, id |-> first] : f \in ForestsOf(n - 1, first + 1)}

ForestsOf(n, first) ==
  IF n = 0 THEN {<<>>}
  ELSE UNION {{<<t>> \o f : t \in TreesOf(k, first), f \in ForestsOf(n - k, first + k)} :
              k \in 1..n}

\* the same tree, its leaves without a children property
RECURSIVE Bare(_)
Bare(node) ==
  IF node.children = <<>>
  THEN [label |-> node.label, id |-> node.id]
  ELSE [node EXCEPT !.children = [i \in 1..Len(@) |-> Bare(@[i])]]

Trees ==
  LET T == UNION {TreesOf(n, 0) : n \in 1..MaxNodes}
  IN  T \cup {Bare(t) : t \in T}

InitLayout ==
  /\ input = <<>>
  /\ lexed = Null
  /\ tokens = <<>>
  /\ currentIndex = 0
  /\ steps = <<>>
  /\ nodeId = 0
  /\ depth = 0
  /\ result = Null
  /\ treeObject \in {Null} \cup {Some(t) : t \in Trees}
  /\ layout = Null
  /\ hook = useState
  /\ intervals = <<>>
  /\ observed = NothingObserved

LayoutSpec == InitLayout /\ [][Layout]_vars

\* ------------------------------------------------- the hook and its events
\* the texts typed or chosen: nothing to parse, a sentence, a text that is
\* no sentence, a text that holds a character of no token
Typed == {<<" ">>, <<"1">>, <<")">>, <<"$">>}

\* the keys pressed in the text field
Keys == {"Enter", "1"}

InitHook ==
  /\ input = <<>>
  /\ lexed = Null
  /\ tokens = <<>>
  /\ currentIndex = 0
  /\ steps = <<>>
  /\ nodeId = 0
  /\ depth = 0
  /\ result = Null
  /\ treeObject = Null
  /\ layout = Null
  /\ hook = useState
  /\ intervals = <<>>
  /\ observed = NothingObserved

\* onChange of the text field, or the click on an example
InputChange ==
  /\ \E value \in Typed : input' = value
  /\ UNCHANGED <<lexed, tokens, currentIndex, steps, nodeId, depth, result,
                 treeObject, layout, hook, intervals, observed>>

\* one call of handleParse
HandleParse ==
  \E r \in {handleParse(input, hook,
                        [tokens |-> tokens, currentIndex |-> currentIndex,
                         steps |-> steps, nodeId |-> nodeId, depth |-> depth])} :
      /\ hook' = r.hook
      /\ tokens' = r.state.tokens
      /\ currentIndex' = r.state.currentIndex
      /\ steps' = r.state.steps
      /\ nodeId' = r.state.nodeId
      /\ depth' = r.state.depth
      /\ UNCHANGED <<input, lexed, result, treeObject, layout, intervals, observed>>

\* the Parse button, disabled while isAnimating
ParseClick ==
  /\ ~hook.isAnimating
  /\ HandleParse

\* handleKeyDown of the text field, which is never disabled
handleKeyDown ==
  \E key \in Keys :
     IF key = "Enter" THEN HandleParse ELSE UNCHANGED vars

\* the Reset button
ResetClick ==
  /\ input' = <<>>
  /\ hook' = handleReset(hook)
  /\ observed' = [observed EXCEPT
                    !.pending = {id \in DOMAIN intervals : intervals[id].scheduled}]
  /\ UNCHANGED <<lexed, tokens, currentIndex, steps, nodeId, depth, result,
                 treeObject, layout, intervals>>

\* the Animate button, shown when there are steps, disabled while isAnimating
AnimateClick ==
  /\ Len(hook.steps) > 0
  /\ ~hook.isAnimating
  /\ Len(intervals) < MaxIntervals
  /\ \E r \in {animateSteps(hook, intervals)} :
        /\ hook' = r.hook
        /\ intervals' = r.intervals
  /\ UNCHANGED <<input, lexed, tokens, currentIndex, steps, nodeId, depth, result,
                 treeObject, layout, observed>>

\* the click on a step of the log, shown when there are tokens
StepClick ==
  /\ Len(hook.tokens) > 0
  /\ \E index \in 0..(Len(hook.steps) - 1) : hook' = [hook EXCEPT !.activeStep = index]
  /\ UNCHANGED <<input, lexed, tokens, currentIndex, steps, nodeId, depth, result,
                 treeObject, layout, intervals, observed>>

\* the 600 ms of a scheduled interval are over
Tick ==
  \E id \in DOMAIN intervals :
     /\ intervals[id].scheduled
     /\ \E r \in {tick(hook, intervals, id)} :
           /\ hook' = r.hook
           /\ intervals' = r.intervals
           /\ observed' =
                [observed EXCEPT
                   !.changed = @ \/ /\ id \in observed.pending
                                    /\ \/ r.hook.activeStep # hook.activeStep
                                       \/ r.hook.isAnimating # hook.isAnimating]
     /\ UNCHANGED <<input, lexed, tokens, currentIndex, steps, nodeId, depth, result,
                    treeObject, layout>>

NextHook ==
  InputChange \/ ParseClick \/ handleKeyDown \/ ResetClick \/ AnimateClick
    \/ StepClick \/ Tick

HookSpec == InitHook /\ [][NextHook]_vars


\* ============================================================== claims
Lexed == lexed # Null
LexOK == Lexed /\ lexed[1].error = Null
LexFailed == Lexed /\ lexed[1].error # Null
Toks == lexed[1].tokens

\* the 0-based offsets of str
Offsets(str) == 0 .. Len(str) - 1

\* ch begins no token and is not whitespace
BadChar(ch) ==
  ch \notin (Whitespace \cup {"+", "-", "*", "/", "(", ")"} \cup Digits \cup Letters \cup {"_"})

\* ch would be taken into a token with value v that ends right before it
Extends(type, v, ch) ==
  \/ type = NUMBER /\ ch \in Digits
  \/ type = NUMBER /\ ch = "." /\ \A i \in 1..Len(v) : v[i] # "."
  \/ type = ID /\ ch \in (Letters \cup Digits \cup {"_"})

\* offset p of str is a token boundary the scan reaches: everything before
\* it tokenizes, and the character at p does not continue the last token
Boundary(str, p) ==
  LET r == tokenize(SubSeq(str, 1, p))
      n == Len(r.tokens)
  IN  /\ r.error = Null
      /\ n >= 2 /\ r.tokens[n - 1].end = p
           => ~Extends(r.tokens[n - 1].type, r.tokens[n - 1].value, charAt(str, p))

FailsAt(str, p) == BadChar(charAt(str, p)) /\ Boundary(str, p)

\* C7: a successful tokenize result holds exactly one EOF token, the last
\* one, with value "EOF" and both offsets equal to the input length; an
\* input of whitespace only (the empty input too) gives [EOF] and no error.
C7_OneEOF ==
  Lexed =>
    /\ LexOK =>
         LET n == Len(Toks)
         IN  /\ n >= 1
             /\ \A i \in 1..n : (Toks[i].type = EOF) <=> (i = n)
             /\ Toks[n].value = <<"EOF">>
             /\ Toks[n].pos = Len(input)
             /\ Toks[n].end = Len(input)
    /\ (\A i \in 1..Len(input) : input[i] \in Whitespace) =>
         /\ lexed[1].error = Null
         /\ lexed[1].errorPos = Null
         /\ Toks = <<[type |-> EOF, value |-> <<"EOF">>,
                      pos |-> Len(input), end |-> Len(input)]>>

C7_Witness ==
  /\ LexOK
  /\ Len(input) >= 2
  /\ \A i \in 1..Len(input) : input[i] \in Whitespace
  /\ Len(Toks) = 1

\* C8: tokenize fails exactly when the scan reaches, at a token boundary, a
\* character that is no whitespace, operator, parenthesis, digit, letter or
\* underscore; it then returns no tokens, the message "Unexpected character
\* '<ch>' at position <pos>" and errorPos = pos for the first such offset.
\* On success error and errorPos are both null.
C8_LexicalError ==
  Lexed =>
    LET bad == {p \in Offsets(input) : FailsAt(input, p)}
    IN  /\ (lexed[1].error # Null) <=> (bad # {})
        /\ bad # {} =>
             LET p == CHOOSE q \in bad : \A o \in bad : q <= o
             IN  /\ Toks = <<>>
                 /\ lexed[1].errorPos = Some(p)
                 /\ lexed[1].error =
                      Some(<<"Unexpected character '", charAt(input, p),
                             "' at position ", ToString(p)>>)
        /\ bad = {} => lexed[1].error = Null /\ lexed[1].errorPos = Null

\* tokens were scanned before the bad character, and are discarded
C8_Witness ==
  /\ LexFailed
  /\ lexed[1].errorPos = Some(2)
  /\ input[1] \in Digits
  /\ input[2] = "+"
  /\ Toks = <<>>

\* the number of '.' in v
RECURSIVE Dots(_)
Dots(v) == IF v = <<>> THEN 0 ELSE (IF Head(v) = "." THEN 1 ELSE 0) + Dots(Tail(v))

\* C9: a NUMBER token is the greedy run of digits and at most one '.' from
\* a digit; a second '.' is left unconsumed and ends the tokenization with
\* "Unexpected character '.' at position <offset of the second dot>".
C9_NumberRun ==
  Lexed =>
    /\ LexOK =>
         \A i \in 1..Len(Toks) : Toks[i].type = NUMBER =>
           LET v == Toks[i].value
               e == Toks[i].end
           IN  /\ v # <<>>
               /\ v[1] \in Digits
               /\ \A k \in 1..Len(v) : v[k] \in (Digits \cup {"."})
               /\ Dots(v) <= 1
               /\ e < Len(input) => charAt(input, e) \notin Digits
               /\ e < Len(input) /\ charAt(input, e) = "." => Dots(v) = 1
    /\ \A s \in Offsets(input) : \A p \in Offsets(input) :
         ( /\ s < p
           /\ Boundary(input, s)
           /\ charAt(input, s) \in Digits
           /\ \A k \in s..(p - 1) : charAt(input, k) \in (Digits \cup {"."})
           /\ Dots(slice(input, s, p)) = 1
           /\ charAt(input, p) = "." )
         => /\ lexed[1].tokens = <<>>
            /\ lexed[1].errorPos = Some(p)
            /\ lexed[1].error =
                 Some(<<"Unexpected character '", ".", "' at position ", ToString(p)>>)

\* the run 1.1 followed by a second dot
C9_Witness ==
  /\ LexFailed
  /\ Len(input) >= 3
  /\ SubSeq(input, 1, 3) = <<"1", ".", ".">>
  /\ lexed[1].errorPos = Some(2)

\* offset k of the input lies inside token t
Covers(t, k) == t.pos <= k /\ k < t.end

\* C10: the tokens of a successful result are the in-order, non-overlapping
\* slices of the input: start < end and value = input[start..end) for each
\* token but EOF, each start at or after the previous end, and every
\* character covered by no token is whitespace.
C10_Slices ==
  LexOK =>
    /\ \A i \in 1..(Len(Toks) - 1) :
         /\ Toks[i].pos < Toks[i].end
         /\ Toks[i].pos >= 0
         /\ Toks[i].end <= Len(input)
         /\ Toks[i].value = slice(input, Toks[i].pos, Toks[i].end)
    /\ \A i \in 2..Len(Toks) : Toks[i].pos >= Toks[i - 1].end
    /\ \A k \in Offsets(input) :
         (\A i \in 1..(Len(Toks) - 1) : ~Covers(Toks[i], k))
           => charAt(input, k) \in Whitespace

\* a multi-character token after skipped whitespace
C10_Witness ==
  /\ LexOK
  /\ Len(Toks) = 2
  /\ Toks[1].pos = 1
  /\ Toks[1].end = 3

\* ------------------------------------------------------ claims on parse
Called == result # Null
Arg == result[1].arg
Ret == result[1].ret

\* arg is a token list as tokenize returns it: it ends in the EOF token
Tokenized(arg) == arg # <<>> /\ arg[Len(arg)].type = EOF

\* the token types of arg before its final EOF
TypesBeforeEOF(arg) == [i \in 1..(Len(arg) - 1) |-> arg[i].type]

\* Derivability in the grammar, by splitting the word among the symbols of
\* a production's right-hand side.
RECURSIVE DerivesE(_), DerivesEPrime(_), DerivesT(_), DerivesTPrime(_), DerivesF(_)

DerivesE(w) ==
  \E k \in 0..Len(w) :
    DerivesT(SubSeq(w, 1, k)) /\ DerivesEPrime(SubSeq(w, k + 1, Len(w)))

DerivesEPrime(w) ==
  \/ w = <<>>
  \/ /\ w # <<>>
     /\ w[1] \in {PLUS, MINUS}
     /\ \E k \in 1..Len(w) :
          DerivesT(SubSeq(w, 2, k)) /\ DerivesEPrime(SubSeq(w, k + 1, Len(w)))

DerivesT(w) ==
  \E k \in 0..Len(w) :
    DerivesF(SubSeq(w, 1, k)) /\ DerivesTPrime(SubSeq(w, k + 1, Len(w)))

DerivesTPrime(w) ==
  \/ w = <<>>
  \/ /\ w # <<>>
     /\ w[1] \in {STAR, SLASH}
     /\ \E k \in 1..Len(w) :
          DerivesF(SubSeq(w, 2, k)) /\ DerivesTPrime(SubSeq(w, k + 1, Len(w)))

DerivesF(w) ==
  \/ w = <<ID>>
  \/ w = <<NUMBER>>
  \/ /\ Len(w) >= 3
     /\ w[1] = LPAREN
     /\ w[Len(w)] = RPAREN
     /\ DerivesE(SubSeq(w, 2, Len(w) - 1))

\* C1: on a token list from a successful tokenize, parse returns a tree and
\* no error exactly when the token types before EOF are derivable from E,
\* and otherwise no tree and an error.
C1_AcceptsGrammar ==
  Called /\ Tokenized(Arg) =>
    IF DerivesE(TypesBeforeEOF(Arg))
    THEN Ret.tree # Null /\ Ret.error = Null
    ELSE Ret.tree = Null /\ Ret.error # Null

\* a sentence with a parenthesised factor and an operator was accepted
C1_Witness ==
  /\ Called
  /\ LexOK
  /\ Arg = Toks
  /\ TypesBeforeEOF(Arg) = <<LPAREN, NUMBER, RPAREN, STAR, NUMBER>>
  /\ Ret.tree # Null

\* the lookahead the call stopped at: the token at currentIndex, or the
\* positionless EOF beyond the end of the list
Offending ==
  IF currentIndex < Len(tokens)
  THEN [type |-> tokens[currentIndex + 1].type,
        value |-> tokens[currentIndex + 1].value,
        pos |-> tokens[currentIndex + 1].pos]
  ELSE [type |-> EOF, value |-> <<"EOF">>, pos |-> -1]

\* C2: every call returns either a tree with error and errorPos null, or no
\* tree with an error and errorPos the position of the offending lookahead,
\* -1 when that lookahead lies past the end of the token list.
C2_TreeXorError ==
  Called =>
    \/ Ret.tree # Null /\ Ret.error = Null /\ Ret.errorPos = Null
    \/ /\ Ret.tree = Null
       /\ Ret.error # Null
       /\ Ret.errorPos = Some(Offending.pos)
       /\ (currentIndex >= Len(Arg)) <=> (Ret.errorPos = Some(-1))

\* a call that failed with its lookahead past the end of the list
C2_Witness ==
  /\ Called
  /\ Arg # <<>>
  /\ ~Tokenized(Arg)
  /\ Ret.tree = Null
  /\ Ret.errorPos = Some(-1)

\* the top-level parseE returned: its Exit step, logged at depth 1
TopLevelExit ==
  \E i \in 1..Len(Ret.steps) :
    Ret.steps[i].action = <<"Exit E">> /\ Ret.steps[i].depth = 1

TrailingInputMessage(tok) ==
  <<"Syntax Error", " at position ", ToString(tok.pos),
    ": Expected ", "end of expression", ", but found ", "'">> \o tok.value \o <<"'">>

\* C3: once parseE has returned inside parse, a lookahead other than EOF
\* fails the call with "Syntax Error at position p: Expected end of
\* expression, but found '<value>'" and errorPos = p, the position of the
\* first unconsumed token; NUMBER NUMBER EOF is rejected so.
C3_TrailingInput ==
  Called =>
    /\ TopLevelExit /\ Offending.type # EOF =>
         /\ Ret.tree = Null
         /\ Ret.error = Some(TrailingInputMessage(Offending))
         /\ Ret.errorPos = Some(Offending.pos)
    /\ Tokenized(Arg) /\ TypesBeforeEOF(Arg) = <<NUMBER, NUMBER>> =>
         /\ Ret.tree = Null
         /\ Ret.error = Some(TrailingInputMessage(Arg[2]))
         /\ Ret.errorPos = Some(Arg[2].pos)

\* two numbers separated by a blank
C3_Witness ==
  /\ Called
  /\ LexOK
  /\ Arg = Toks
  /\ TypesBeforeEOF(Arg) = <<NUMBER, NUMBER>>
  /\ Ret.errorPos = Some(2)

\* the message parseError builds for the offending lookahead
ExpectedMessage(expected, tok) ==
  <<"Syntax Error">>
    \o (IF tok.pos >= 0 THEN <<" at position ", ToString(tok.pos)>> ELSE <<>>)
    \o <<": Expected ", expected, ", but found ">>
    \o (IF tok.type = EOF THEN <<"end of input">> ELSE <<"'">> \o tok.value \o <<"'">>)

\* the last step the descent logged before the failure step
LastDescentStep == Ret.steps[Len(Ret.steps) - 1]

\* the failure arose in parseF after the parenthesised E: the descent's
\* last step is the Exit of a nested E
AfterParenthesisedE ==
  LastDescentStep.action = <<"Exit E">> /\ LastDescentStep.depth > 1

\* C4: a failure in parseF names the expected symbols and the token found:
\* ')' when the token after a parenthesised E is not RPAREN, and number,
\* identifier, or "(" when the lookahead begins no factor; the token found
\* is its quoted value, or end of input for EOF; errorPos is its position,
\* which for a failure at the EOF of the input is the input length.
C4_FactorErrors ==
  Called /\ Ret.error # Null /\ ~TopLevelExit =>
    /\ Len(Ret.steps) >= 2
    /\ IF AfterParenthesisedE
       THEN /\ Offending.type # RPAREN
            /\ Ret.error = Some(ExpectedMessage("')'", Offending))
       ELSE /\ Offending.type \notin {LPAREN, NUMBER, ID}
            /\ Ret.error = Some(ExpectedMessage("number, identifier, or \"(\"", Offending))
    /\ Ret.errorPos = Some(Offending.pos)
    /\ LexOK /\ Arg = Toks /\ Offending.type = EOF => Ret.errorPos = Some(Len(input))

\* an unclosed parenthesis at the end of the input
C4_Witness ==
  /\ Called
  /\ LexOK
  /\ Arg = Toks
  /\ TypesBeforeEOF(Arg) = <<LPAREN, NUMBER, PLUS, NUMBER>>
  /\ Ret.error = Some(<<"Syntax Error", " at position ", "4", ": Expected ", "')'",
                        ", but found ", "end of input">>)
  /\ Ret.errorPos = Some(4)

TerminalRules == {"Parse Complete", "Parse Error"}

\* C5: the returned steps end with exactly one terminal step: the success
\* step, logged with the lookahead at EOF, or the failure step whose action
\* is the returned message; before it come the steps of the descent, all of
\* them and in the order logged; no terminal step occurs earlier.
C5_TerminalStep ==
  Called =>
    LET n == Len(Ret.steps)
    IN  /\ n >= 2
        /\ Ret.steps = steps
        /\ \A i \in 1..n : Ret.steps[i].timestamp = i - 1
        /\ \A i \in 1..(n - 1) :
             /\ Ret.steps[i].rule \notin TerminalRules
             /\ Ret.steps[i].action # SuccessAction
             /\ Ret.error # Null => Ret.steps[i].action # Ret.error[1]
        /\ Ret.steps[1].action = <<"Enter E">>
        /\ IF Ret.error = Null
           THEN /\ Ret.steps[n].rule = "Parse Complete"
                /\ Ret.steps[n].action = SuccessAction
                /\ Ret.steps[n].tokenType = EOF
                /\ Ret.steps[n - 1].action = <<"Exit E">>
           ELSE /\ Ret.steps[n].rule = "Parse Error"
                /\ Ret.steps[n].action = Ret.error[1]
                /\ Ret.steps[n].tokenType = Offending.type

\* a failure after several steps of the descent
C5_Witness ==
  /\ Called
  /\ Ret.error # Null
  /\ Len(Ret.steps) >= 6
  /\ Ret.steps[Len(Ret.steps)].action = Ret.error[1]

\* the module-level variables as the module is loaded
Loaded ==
  [tokens |-> <<>>, currentIndex |-> 0, steps |-> <<>>, nodeId |-> 0, depth |-> 0]

RECURSIVE NodeIds(_)
NodeIds(node) ==
  {node.id} \cup UNION {NodeIds(node.children[i]) : i \in 1..Len(node.children)}

\* C6: whatever the earlier calls left in the module-level variables, a
\* call returns what the same call returns in a freshly loaded module: the
\* same tree with the same ids, counted from 0, and the same steps with the
\* same depths and indices.
C6_CallsIndependent ==
  Called =>
    /\ Ret = parse(Arg, Loaded).ret
    /\ Ret.steps[1].depth = 1
    /\ Ret.steps[1].timestamp = 0
    /\ Ret.tree # Null => 0 \in NodeIds(Ret.tree[1])

\* a failed call has left the counters and the token index non-zero, and
\* calls are made from this state
C6_Witness ==
  /\ Called
  /\ Arg = Probe
  /\ Ret.error # Null
  /\ depth > 0
  /\ nodeId > 0
  /\ currentIndex > 0

\* ------------------------------------------------- claims on the tree
Succeeded == Called /\ Ret.tree # Null
Tree == Ret.tree[1]

isLeafNode(node) == node.children = <<>>

\* the values of the NUMBER and ID tokens of arg
OperandValues(arg) ==
  {arg[i].value : i \in {k \in 1..Len(arg) : arg[k].type \in {NUMBER, ID}}}

RECURSIVE ShapeE(_, _), ShapeEPrime(_, _), ShapeT(_, _), ShapeTPrime(_, _), ShapeF(_, _)

ShapeE(node, arg) ==
  /\ node.label = <<"E">>
  /\ Len(node.children) = 2
  /\ ShapeT(node.children[1], arg)
  /\ ShapeEPrime(node.children[2], arg)

ShapeEPrime(node, arg) ==
  /\ node.label = <<"E", "'">>
  /\ \/ /\ Len(node.children) = 3
        /\ isLeafNode(node.children[1])
        /\ node.children[1].label \in {<<"+">>, <<"-">>}
        /\ ShapeT(node.children[2], arg)
        /\ ShapeEPrime(node.children[3], arg)
     \/ /\ Len(node.children) = 1
        /\ isLeafNode(node.children[1])
        /\ node.children[1].label = EPSILON

ShapeT(node, arg) ==
  /\ node.label = <<"T">>
  /\ Len(node.children) = 2
  /\ ShapeF(node.children[1], arg)
  /\ ShapeTPrime(node.children[2], arg)

ShapeTPrime(node, arg) ==
  /\ node.label = <<"T", "'">>
  /\ \/ /\ Len(node.children) = 3
        /\ isLeafNode(node.children[1])
        /\ node.children[1].label \in {<<"*">>, <<"/">>}
        /\ ShapeF(node.children[2], arg)
        /\ ShapeTPrime(node.children[3], arg)
     \/ /\ Len(node.children) = 1
        /\ isLeafNode(node.children[1])
        /\ node.children[1].label = EPSILON

ShapeF(node, arg) ==
  /\ node.label = <<"F">>
  /\ \/ /\ Len(node.children) = 3
        /\ isLeafNode(node.children[1])
        /\ node.children[1].label = <<"(">>
        /\ ShapeE(node.children[2], arg)
        /\ isLeafNode(node.children[3])
        /\ node.children[3].label = <<")">>
     \/ /\ Len(node.children) = 1
        /\ isLeafNode(node.children[1])
        /\ node.children[1].label \in OperandValues(arg)

\* C11: the tree of a successful parse has the shape of the grammar: the
\* root is an E; an E has the children T, E'; an E' has an operator leaf
\* '+' or '-', T, E', or one epsilon leaf; a T has F, T'; a T' has an
\* operator leaf '*' or '/', F, T', or one epsilon leaf; an F has '(' leaf,
\* E, ')' leaf, or one leaf labelled with an identifier or number value.
C11_GrammarShape ==
  Succeeded => ShapeE(Tree, Arg)

\* a tree with a three-child E' and, below it, a three-child T'
C11_Witness ==
  /\ Succeeded
  /\ TypesBeforeEOF(Arg) = <<NUMBER, PLUS, NUMBER, STAR, NUMBER>>
  /\ Len(Tree.children[2].children) = 3
  /\ Len(Tree.children[2].children[2].children[2].children) = 3

\* the number of nodes of the tree rooted at node
RECURSIVE Size(_), SizeAll(_)
Size(node) == 1 + SizeAll(node.children)

SizeAll(nodes) ==
  IF nodes = <<>> THEN 0 ELSE Size(Head(nodes)) + SizeAll(Tail(nodes))

\* every node's id is greater than the ids of all its descendants
RECURSIVE IdsAboveDescendants(_)
IdsAboveDescendants(node) ==
  \A i \in 1..Len(node.children) :
    /\ \A d \in NodeIds(node.children[i]) : node.id > d
    /\ IdsAboveDescendants(node.children[i])

\* C12: in the tree of n nodes of a successful parse the ids are pairwise
\* distinct and are exactly 0..n-1, every node created in the call being in
\* the tree; a node's id is greater than those of its descendants, and the
\* root has id n-1.
C12_IdsInCreationOrder ==
  Succeeded =>
    LET n == Size(Tree)
    IN  /\ NodeIds(Tree) = 0..(n - 1)
        /\ nodeId = n
        /\ IdsAboveDescendants(Tree)
        /\ Tree.id = n - 1

\* a tree of a parenthesised expression
C12_Witness ==
  /\ Succeeded
  /\ TypesBeforeEOF(Arg) = <<LPAREN, NUMBER, PLUS, NUMBER, RPAREN>>
  /\ Size(Tree) >= 20
  /\ Tree.id = Size(Tree) - 1

\* ----------------------------------------------- claims on the layout
LaidOut == layout # Null /\ layout[1].arg # Null
Given == layout[1].arg[1]
Out == layout[1].ret

\* the children of a tree node, none when it has no children property
Kids(node) == IF "children" \in DOMAIN node THEN node.children ELSE <<>>

\* the nodes of the tree under node
RECURSIVE Subtrees(_)
Subtrees(node) ==
  {node} \cup UNION {Subtrees(Kids(node)[i]) : i \in 1..Len(Kids(node))}

\* the ids of the tree under node in pre-order, and those of its leaves from
\* left to right
RECURSIVE Preorder(_), PreorderAll(_), Leaves(_), LeavesAll(_)
Preorder(node) == <<node.id>> \o PreorderAll(Kids(node))

PreorderAll(nodes) ==
  IF nodes = <<>> THEN <<>> ELSE Preorder(Head(nodes)) \o PreorderAll(Tail(nodes))

Leaves(node) == IF Kids(node) = <<>> THEN <<node.id>> ELSE LeavesAll(Kids(node))

LeavesAll(nodes) ==
  IF nodes = <<>> THEN <<>> ELSE Leaves(Head(nodes)) \o LeavesAll(Tail(nodes))

\* the laid-out node with the given id
At(id) == CHOOSE n \in {Out.nodes[i] : i \in 1..Len(Out.nodes)} : n.id = id

\* C13: in the layout of a non-null tree every node with children has an x
\* that is the midpoint of the x of its first and of its last child, not
\* the mean over all its children, however many they are.
C13_Midpoint ==
  LaidOut =>
    \A n \in Subtrees(Given) :
      Kids(n) # <<>> =>
        2 * At(n.id).x = At(Kids(n)[1].id).x + At(Kids(n)[Len(Kids(n))].id).x

\* a node with three children whose mean x is not the midpoint
C13_Witness ==
  /\ LaidOut
  /\ \E n \in Subtrees(Given) :
       /\ Len(Kids(n)) = 3
       /\ 3 * At(n.id).x #
            At(Kids(n)[1].id).x + At(Kids(n)[2].id).x + At(Kids(n)[3].id).x
       /\ 2 * At(n.id).x = At(Kids(n)[1].id).x + At(Kids(n)[3].id).x

\* C14: in the layout of a non-null tree the k-th leaf in left-to-right
\* order, k from 0, has x = 80k + 30 pixels, so the x of the leaves are
\* strictly increasing whatever their depths.
C14_LeafSpacing ==
  LaidOut =>
    LET leaves == Leaves(Given)
    IN  /\ \A k \in 0..(Len(leaves) - 1) : At(leaves[k + 1]).x = px(80 * k + 30)
        /\ \A k \in 1..(Len(leaves) - 1) : At(leaves[k]).x < At(leaves[k + 1]).x

\* three leaves or more, not all at one depth
C14_Witness ==
  /\ LaidOut
  /\ Len(Leaves(Given)) >= 3
  /\ At(Leaves(Given)[1]).depth # At(Leaves(Given)[2]).depth
  /\ At(Leaves(Given)[3]).x = px(190)

\* C15: in the layout of a non-null tree the root has depth 0 and every
\* child a depth one more than its parent's; the nodes list holds each node
\* of the tree exactly once.
C15_Depths ==
  LaidOut =>
    /\ At(Given.id).depth = 0
    /\ \A n \in Subtrees(Given) : \A i \in 1..Len(Kids(n)) :
         At(Kids(n)[i].id).depth = At(n.id).depth + 1
    /\ [i \in 1..Len(Out.nodes) |-> Out.nodes[i].id] = Preorder(Given)

\* a tree four levels deep that also branches
C15_Witness ==
  /\ LaidOut
  /\ \E i \in 1..Len(Out.nodes) : Out.nodes[i].depth = 3
  /\ Len(Kids(Given)) >= 2

\* C16: computeTreeLayout leaves the tree it was given as it was: after the
\* call every node has the id, label and children it had and no property
\* more.
C16_TreeUnchanged ==
  LaidOut => treeObject = layout[1].arg

\* C17: in the layout of a parsed tree no leaf is classified as a
\* nonterminal: a leaf is drawn as a terminal, an operator or the epsilon
\* marker, and isNonTerminal is true of inner nodes only.
C17_LeavesNotNonTerminal ==
  LaidOut =>
    \A n \in Subtrees(Given) :
      Kids(n) = <<>> =>
        /\ ~At(n.id).isNonTerminal
        /\ nodeClass(At(n.id)) \in {"terminal", "operator", "epsilon"}

\* C21: in the layout of a non-null tree two distinct nodes at one depth
\* have x at least NODE_WIDTH + MIN_SIBLING_SEP = 80 pixels apart, the one
\* that comes first in the tree to the left, so that no two boxes of a level
\* overlap; and every child has y = its parent's y + LEVEL_HEIGHT.
C21_NoOverlap ==
  LaidOut =>
    LET order == Preorder(Given)
    IN  /\ \A i \in 1..Len(order) : \A j \in (i + 1)..Len(order) :
             At(order[i]).depth = At(order[j]).depth =>
               /\ At(order[j]).x - At(order[i]).x >= px(NODE_WIDTH + MIN_SIBLING_SEP)
               /\ At(order[j]).x - At(order[i]).x >= px(80)
        /\ \A n \in Subtrees(Given) : \A i \in 1..Len(Kids(n)) :
             /\ At(Kids(n)[i].id).y = At(n.id).y + px(LEVEL_HEIGHT)
             /\ At(Kids(n)[i].id).y > At(n.id).y

\* two inner nodes of one level exactly 80 pixels apart, and two nodes of a
\* deeper level under different parents
C21_Witness ==
  /\ LaidOut
  /\ \E a \in Subtrees(Given) : \E b \in Subtrees(Given) :
       /\ Kids(a) # <<>> /\ Kids(b) # <<>>
       /\ At(a.id).depth = 1 /\ At(b.id).depth = 1
       /\ At(b.id).x - At(a.id).x = px(80)
       /\ At(Kids(b)[1].id).depth = At(Kids(a)[1].id).depth
       /\ At(Kids(b)[1].id).x - At(Kids(a)[1].id).x >= px(80)

\* ------------------------------------------------ claims on the trace
\* the steps of the descent: all but the terminal step
Descent == SubSeq(Ret.steps, 1, Len(Ret.steps) - 1)

IsMatch(s) == s.action[1] \in {"Match '", "Match number '", "Match identifier '"}
IsEpsilon(s) == s.action = <<"Epsilon (no match needed)">>
IsEnterExit(s) == s.action[1] \in {"Enter E", "Exit E", "Enter T", "Exit T"}

\* the value a Match step names, between the quotes of its action
MatchedValue(s) == SubSeq(s.action, 2, Len(s.action) - 1)

\* the tokens of arg other than EOF
NonEOF(arg) == SelectSeq(arg, LAMBDA t : t.type # EOF)

\* the number of Match steps among the first i steps of ss
RECURSIVE Matches(_, _)
Matches(ss, i) ==
  IF i = 0 THEN 0 ELSE Matches(ss, i - 1) + (IF IsMatch(ss[i]) THEN 1 ELSE 0)

\* The descent run again from c, recording for each step logged the token
\* index before the function logged it and the index when the function next
\* calls, returns or throws.
\* acc with the indices of the function's run from c to c2, when it logged
recorded(acc, c, c2) ==
  IF Len(c2.steps) > Len(c.steps)
  THEN Append(acc, [logged |-> Len(c2.steps) - Len(c.steps),
                    before |-> c.currentIndex,
                    after |-> c2.currentIndex])
  ELSE acc

RECURSIVE indexTrace(_, _, _)
indexTrace(toks, c, acc) ==
  IF c.stack = <<>> \/ c.err # Null THEN acc
  ELSE indexTrace(toks, step(toks, c), recorded(acc, c, step(toks, c)))

\* the lookahead of a step logged with k tokens consumed
LookaheadAfter(arg, k) ==
  IF k < Len(arg) THEN [value |-> arg[k + 1].value, type |-> arg[k + 1].type]
  ELSE [value |-> <<"EOF">>, type |-> EOF]

\* the indices recorded along the descent fit the steps ss: a Match step
\* moves the index by one before anything else is logged, no other step
\* moves it, and it does not move between two steps
IndexMovesOnMatchOnly(ss, tr) ==
  /\ Len(tr) = Len(ss)
  /\ \A i \in 1..Len(tr) :
       /\ tr[i].logged = 1
       /\ tr[i].before = Matches(ss, i - 1)
       /\ tr[i].after = Matches(ss, i)

\* C18: in the trace of a successful parse the Match steps are, in order,
\* the tokens before EOF: the k-th names the k-th token's value, has it as
\* its lookahead and is logged right before it is consumed; Epsilon, Enter
\* and Exit steps leave the token index alone; Enter and Exit are logged for
\* E and T only, the steps of E', T' and F being Match and Epsilon steps.
C18_MatchesAreTokens ==
  Succeeded =>
    /\ Matches(Descent, Len(Descent)) = Len(NonEOF(Arg))
    /\ \A i \in 1..Len(Descent) :
         LET s == Descent[i]
             k == Matches(Descent, i - 1)
         IN  /\ s.token = LookaheadAfter(Arg, k).value
             /\ s.tokenType = LookaheadAfter(Arg, k).type
             /\ IsMatch(s) => MatchedValue(s) = Arg[k + 1].value /\ Arg[k + 1].type # EOF
             /\ IsMatch(s) \/ IsEpsilon(s) \/ IsEnterExit(s)
             /\ IsEnterExit(s) <=> s.rule \in {"E -> T E'", "T -> F T'"}
             /\ s.action \in {<<"Enter E">>, <<"Exit E">>} <=> s.rule = "E -> T E'"
    /\ IndexMovesOnMatchOnly(Descent, indexTrace(Arg, resetState(Loaded, Arg), <<>>))
    /\ currentIndex = Len(NonEOF(Arg))

\* operators, operands and parentheses all matched
C18_Witness ==
  /\ Succeeded
  /\ TypesBeforeEOF(Arg) = <<NUMBER, STAR, LPAREN, NUMBER, RPAREN>>
  /\ Matches(Descent, Len(Descent)) = 5
  /\ \E i \in 1..Len(Descent) : IsMatch(Descent[i]) /\ MatchedValue(Descent[i]) = <<")">>

\* C19 as claimed: the depths of two consecutive steps differ by at most 1,
\* and every depth is a non-negative integer.
C19_DepthChangesByOne ==
  Called =>
    /\ \A i \in 1..Len(Ret.steps) : Ret.steps[i].depth \in Nat
    /\ \A i \in 2..Len(Ret.steps) :
         /\ Ret.steps[i].depth - Ret.steps[i - 1].depth <= 1
         /\ Ret.steps[i - 1].depth - Ret.steps[i].depth <= 1

\* C19: in the trace of any call the depth of a step is at most 1 more than
\* the depth of the step before it, and every depth is a non-negative
\* integer; the depth may fall by more than 1 from one step to the next.
C19_DepthRisesByOne ==
  Called =>
    /\ \A i \in 1..Len(Ret.steps) : Ret.steps[i].depth \in Nat
    /\ \A i \in 2..Len(Ret.steps) :
         Ret.steps[i].depth - Ret.steps[i - 1].depth <= 1

\* a fall by 3, after a chain of two multiplications
C19_Witness ==
  /\ Called
  /\ TypesBeforeEOF(Arg) = <<NUMBER, STAR, NUMBER, STAR, NUMBER>>
  /\ \E i \in 2..Len(Ret.steps) :
       /\ Ret.steps[i - 1].depth - Ret.steps[i].depth = 3
       /\ Ret.steps[i].action = <<"Exit T">>
  /\ \E i \in 2..Len(Ret.steps) : Ret.steps[i].depth - Ret.steps[i - 1].depth = 1

\* the greatest depth recorded in the steps ss
RECURSIVE MaxStepDepth(_)
MaxStepDepth(ss) ==
  IF ss = <<>> THEN 0
  ELSE LET d == MaxStepDepth(Tail(ss))
       IN  IF Head(ss).depth > d THEN Head(ss).depth ELSE d

\* the number of tokens of arg with a type in types
Count(arg, types) == Len(SelectSeq(arg, LAMBDA t : t.type \in types))

\* the greatest number of parentheses open at once in arg
Nesting(arg) ==
  LET open(k) == Count(SubSeq(arg, 1, k), {LPAREN}) - Count(SubSeq(arg, 1, k), {RPAREN})
  IN  CHOOSE n \in 0..Len(arg) :
        /\ \E k \in 0..Len(arg) : open(k) = n
        /\ \A k \in 0..Len(arg) : open(k) <= n

Operators(arg) == Count(arg, {PLUS, MINUS, STAR, SLASH})

\* the depth the parse of a lone operand reaches
OperandDepth == MaxStepDepth(parse(tokenize(<<"1">>).tokens, Loaded).ret.steps)

\* C20 as claimed: the depth reached is bounded by the nesting of the
\* parentheses alone, by what an operand nested that deep reaches, so that
\* without parentheses it does not grow with the operators.
C20_DepthBoundedByNesting ==
  Called => MaxStepDepth(Ret.steps) <= OperandDepth * (Nesting(Arg) + 1)

\* the operators of arg are all additive or all multiplicative
OneLevel(arg) == Count(arg, {PLUS, MINUS}) = 0 \/ Count(arg, {STAR, SLASH}) = 0

\* C20: the depth reached is bounded by the nesting of the parentheses and
\* the number of operators together: it is at most 3 for each level of
\* nesting, 3 more, and 1 for each operator token; a successful parse
\* without parentheses whose operators are all additive or all
\* multiplicative reaches exactly 3 plus the number of its operators.
C20_DepthBoundedByNestingAndOperators ==
  Called =>
    /\ MaxStepDepth(Ret.steps) <= 3 * (Nesting(Arg) + 1) + Operators(Arg)
    /\ Ret.tree # Null /\ Count(Arg, {LPAREN}) = 0 /\ OneLevel(Arg) =>
         MaxStepDepth(Ret.steps) = 3 + Operators(Arg)

\* two operators and no parenthesis: depth 5
C20_Witness ==
  /\ Succeeded
  /\ TypesBeforeEOF(Arg) = <<NUMBER, PLUS, NUMBER, PLUS, NUMBER>>
  /\ MaxStepDepth(Ret.steps) = 5
  /\ OperandDepth = 3

\* ------------------------------------------ claims on tokens and tree
\* the labels of the leaves under node from left to right, epsilon leaves
\* left out
RECURSIVE Yield(_), YieldAll(_)
Yield(node) ==
  IF node.children = <<>>
  THEN IF node.label = EPSILON THEN <<>> ELSE <<node.label>>
  ELSE YieldAll(node.children)

YieldAll(nodes) ==
  IF nodes = <<>> THEN <<>> ELSE Yield(Head(nodes)) \o YieldAll(Tail(nodes))

\* C22: in the tree of a successful parse the labels of the leaves other
\* than epsilon, from left to right, are the values of the tokens before
\* EOF in order: no token is dropped, duplicated or reordered.
C22_YieldIsInput ==
  Succeeded =>
    Yield(Tree) = [i \in 1..Len(NonEOF(Arg)) |-> NonEOF(Arg)[i].value]

\* an operator, a parenthesised operand and epsilon leaves in between
C22_Witness ==
  /\ Succeeded
  /\ TypesBeforeEOF(Arg) = <<NUMBER, PLUS, LPAREN, NUMBER, RPAREN>>
  /\ Yield(Tree) = <<<<"1">>, <<"+">>, <<"(">>, <<"1">>, <<")">>>>
  /\ Size(Tree) > 2 * Len(Yield(Tree))

\* ---------------------------------------------- claims on the failure
\* the types of all the tokens of arg, EOF included
Types(arg) == [i \in 1..Len(arg) |-> arg[i].type]

\* n times the type t
Repeat(t, n) == [i \in 1..n |-> t]

\* the parentheses w leaves open
Open(w) ==
  Len(SelectSeq(w, LAMBDA t : t = LPAREN)) - Len(SelectSeq(w, LAMBDA t : t = RPAREN))

\* The word w of token types can be extended to a sentence followed by EOF.
\* A word ending in EOF admits no extension.  Any other word is extended, if
\* at all, by closing its open parentheses, after an operand where it ends
\* in an operator or an opening parenthesis.
Viable(w) ==
  IF w # <<>> /\ w[Len(w)] = EOF
  THEN DerivesE(Front(w))
  ELSE /\ Open(w) >= 0
       /\ \/ DerivesE(w \o Repeat(RPAREN, Open(w)))
          \/ DerivesE(w \o <<NUMBER>> \o Repeat(RPAREN, Open(w)))

\* the first index k, from 0, such that the first k types of w are viable
\* and the first k + 1 are not
FirstError(w) ==
  CHOOSE k \in 0..(Len(w) - 1) :
    /\ ~Viable(SubSeq(w, 1, k + 1))
    /\ \A i \in 0..k : Viable(SubSeq(w, 1, i))

\* the call failed with the token at index k, from 0, as the offender: it is
\* the lookahead of the failure step, its position is errorPos, the k tokens
\* before it were consumed by Match steps, one each and in order, and no
\* token from it on was consumed
FailedAtToken(k) ==
  /\ Ret.errorPos = Some(Arg[k + 1].pos)
  /\ Ret.steps[Len(Ret.steps)].token = Arg[k + 1].value
  /\ Ret.steps[Len(Ret.steps)].tokenType = Arg[k + 1].type
  /\ currentIndex = k
  /\ Matches(Descent, Len(Descent)) = k
  /\ \A i \in 1..Len(Descent) :
       IsMatch(Descent[i]) =>
         /\ MatchedValue(Descent[i]) = Arg[Matches(Descent, i)].value
         /\ Descent[i].token = Arg[Matches(Descent, i)].value

\* C23: a call that fails on a token list ending in EOF reports the
\* earliest token that can be at fault: the token at the first index k such
\* that the k tokens before it can be extended to a sentence and the k + 1
\* tokens up to it cannot; the tokens before it were consumed by Match
\* steps, and no token from it on was.
C23_EarliestError ==
  Called /\ Tokenized(Arg) /\ Ret.error # Null =>
    /\ \E k \in 0..(Len(Arg) - 1) :
         ~Viable(SubSeq(Types(Arg), 1, k + 1)) /\ \A i \in 0..k : Viable(SubSeq(Types(Arg), 1, i))
    /\ FailedAtToken(FirstError(Types(Arg)))

\* a failure at the fourth token, after the Exit of a nested E, with a
\* token after it
C23_Witness ==
  /\ Called
  /\ LexOK
  /\ Arg = Toks
  /\ TypesBeforeEOF(Arg) = <<LPAREN, NUMBER, PLUS, NUMBER, LPAREN>>
  /\ Ret.error # Null
  /\ FirstError(Types(Arg)) = 4
  /\ currentIndex = 4

\* ------------------------------------------------- claims on the hook
\* C24: in every state of the hook, whatever the order of handleParse (by
\* the button or the Enter key), handleReset, animateSteps, clicks on steps
\* and ticks of the animation's interval, activeStep is -1 or an index of
\* the current steps (-1 <= activeStep < steps.length), and once
\* handleReset has run no interval pending then changes activeStep or
\* isAnimating.
C24_ActiveStepValid ==
  /\ -1 <= hook.activeStep
  /\ hook.activeStep < Len(hook.steps)
  /\ ~observed.changed

====
